---- MODULE Spec2Model ----
(***************************************************************************)
(* Ghost Chat: the room-operations edge function (create / join), the      *)
(* rooms / room_participants tables with their constraints and row level   *)
(* security policies, the client's expireRoom and the cleanup sweep.       *)
(*                                                                         *)
(* Every store call of the edge function is one atomic step; the steps of  *)
(* concurrent requests, the clients' direct writes, the sweep and the      *)
(* passing of time interleave freely.  Time is in milliseconds.            *)
(***************************************************************************)
EXTENDS Integers, Sequences, FiniteSets, TLC

\* ---------------------------------------------------------------- bounds
\* number of rooms ever inserted (room ids are never reused)
MaxRooms == 1
\* number of clock advances
MaxTicks == 2
\* number of transient store failures (network / database errors)
MaxFaults == 1
\* number of rows ever inserted into messages
MaxMessages == 2

\* ------------------------------------------------------ program constants
MIN_DURATION == 1
MAX_DURATION == 120
MS_PER_MINUTE == 60 * 1000
RETENTION_MS == 60 * 60 * 1000
CODE_LENGTH == 6

\* ------------------------------------------------------------ input sets
\* the alphabet of generateRoomCode
chars == <<"A","B","C","D","E","F","G","H","J","K","L","M","N","P","Q","R",
           "S","T","U","V","W","X","Y","Z","2","3","4","5","6","7","8","9">>

CharSet == {chars[i] : i \in DOMAIN chars}

\* the codes the generator draws in the model (a sample of CharSet^6)
GenCodes == { <<"A","B","C","2","3","4">>, <<"Z","Z","Z","Z","Z","Z">> }

\* codes a caller passes to join: lower case, upper case, too short, empty
JoinInputs == { <<"a","b","c","2","3","4">>,
                <<"Z","Z","Z","Z","Z","Z">>,
                <<"A","B">>,
                <<>> }

\* the durations the CreateRoom page offers (minutes)
DURATION_OPTIONS == {15, 30, 60, 180}

\* durationMinutes of a create request: <<>> is a missing value, 180 the
\* longest duration of the page
DurationInputs == { <<>>, <<-1>>, <<0>>, <<1>>, <<120>>, <<121>>, <<180>> }

\* the clock advances by two minutes or by an hour
TickSteps == { 2 * MS_PER_MINUTE, 60 * MS_PER_MINUTE }

RoomIds == 1 .. MaxRooms
Joiners == {"j1", "j2"}

\* ------------------------------------------------------------ conversions
LowerLetters == <<"a","b","c","d","e","f","g","h","i","j","k","l","m",
                  "n","o","p","q","r","s","t","u","v","w","x","y","z">>
UpperLetters == <<"A","B","C","D","E","F","G","H","I","J","K","L","M",
                  "N","O","P","Q","R","S","T","U","V","W","X","Y","Z">>

UpperChar(c) ==
  IF \E i \in DOMAIN LowerLetters : LowerLetters[i] = c
  THEN UpperLetters[CHOOSE i \in DOMAIN LowerLetters : LowerLetters[i] = c]
  ELSE c

\* String.prototype.toUpperCase
toUpperCase(s) == [i \in DOMAIN s |-> UpperChar(s[i])]

\* ------------------------------------------------------------------ state
VARIABLES
  now,                \* the clock (ms)
  ticks,              \* clock advances so far
  faults,             \* transient store failures so far
  rooms,              \* table public.rooms
  room_participants,  \* table public.room_participants
  nextRoomId,         \* next value of rooms.id
  cpc, creq,          \* the create request in flight: position, locals
  jpc, jreq,          \* the join requests in flight, per caller
  reply,              \* the response this step sends, NoReply when it sends none
  nextToken,          \* session tokens generated so far, plus one
  admitted,           \* per room id: join requests that returned a session token
  messages,           \* table public.messages
  nextMsgId,          \* rows inserted into messages so far, plus one
  rpc, rreq,          \* the get / getMessages request in flight: position, locals
  feed,               \* the rows the open messages channel has delivered to its page
  cipher,             \* a text on its way from one page to another: position, locals
  page                \* a ChatRoom page: route, sessionStorage, state, last request

vars == <<now, ticks, faults, rooms, room_participants, nextRoomId,
          cpc, creq, jpc, jreq, reply, nextToken, admitted,
          messages, nextMsgId, rpc, rreq, feed, cipher, page>>

\* what the pages hold apart from their requests
pagevars == <<cipher, page>>

\* what the room operations leave alone
readvars == <<nextMsgId, rpc, rreq, feed, pagevars>>

NoRoom == [id |-> 0, code |-> <<>>, duration_minutes |-> 0, created_at |-> 0,
           expires_at |-> 0, status |-> "none", participant_count |-> 0]

\* op, input and roomId say which request is answered (roomId: the room it
\* found, 0 if none); status, error, room and sessionToken are the response
\* participantNumber (get) and messages (getMessages) are <<>> in the
\* responses that carry none
NoReply == [op |-> "", input |-> <<>>, roomId |-> 0, status |-> 0, error |-> "",
            room |-> NoRoom, sessionToken |-> 0,
            participantNumber |-> <<>>, messages |-> <<>>]

Response(op, input, id, st, err, room, tok) ==
  [op |-> op, input |-> input, roomId |-> id, status |-> st, error |-> err,
   room |-> room, sessionToken |-> tok,
   participantNumber |-> <<>>, messages |-> <<>>]

NoCreate == [durationMinutes |-> <<>>, requestedAt |-> 0, room |-> NoRoom]

NoJoin == [code |-> <<>>, roomId |-> 0, sessionToken |-> 0]

\* locals of a get / getMessages request: the room is the row get found
NoRead == [op |-> "", code |-> <<>>, roomId |-> 0, sessionToken |-> 0,
           room |-> NoRoom]

\* no text is on its way
NoCipher == [pc |-> "none", text |-> <<>>, roomCode |-> <<>>, iv |-> <<>>,
             sent |-> <<>>, received |-> <<>>, intact |-> TRUE,
             readerCode |-> <<>>, threw |-> FALSE, out |-> <<>>]

\* no sendMessage call: a value is <<v>>, and <<>> when undefined or null
NoCall == [content |-> <<>>, type |-> "", imageUrl |-> <<>>]

\* no page is open.  code is the route parameter; roomSessionToken, roomCode
\* and currentRoomCode are sessionStorage items (0 and <<>> when absent), room
\* and isExpired the component's state; sent holds the arguments of the
\* page's last sendMessage call and body the request made of them.
\* messages is the displayed list; fetch the initial getMessages (position
\* and rows); channel the messages subscription and next the id of the first
\* row it has not delivered; decrypting the rows whose callback awaits
\* decryptMessage, stale those among them whose channel was removed since;
\* poll is the status poll in flight (position, answer; NoRoom for null)
NoFetch == [pc |-> "none", rows |-> <<>>]

NoPoll == [pc |-> "idle", room |-> NoRoom]

NoPage == [pc |-> "none", code |-> <<>>, roomSessionToken |-> 0, roomCode |-> <<>>,
           currentRoomCode |-> <<>>,
           messages |-> <<>>, fetch |-> NoFetch, channel |-> "none", next |-> 0,
           decrypting |-> {}, stale |-> {}, poll |-> NoPoll,
           room |-> NoRoom, isExpired |-> FALSE, sent |-> NoCall, body |-> NoCall]

\* ----------------------------------------------------- tables and constraints
RoomById(id) == {r \in rooms : r.id = id}

RoomByCode(code) == {r \in rooms : r.code = code}

ParticipantsOf(id) == {p \in room_participants : p.room_id = id}

Participant(room_id, token, number) ==
  [room_id |-> room_id, session_token |-> token, participant_number |-> number]

\* rooms.code is UNIQUE
RoomsInsertOk(code) == RoomByCode(code) = {}

\* the insert check without the index idx_room_participant_number
ParticipantInsertOk_NoSlotIndex(room_id, token, number) ==
  /\ RoomById(room_id) # {}
  /\ \A p \in room_participants : p.session_token # token
  /\ number \in {1, 2}

\* room_participants: room_id REFERENCES rooms(id), session_token UNIQUE,
\* CHECK participant_number IN (1,2), UNIQUE (room_id, participant_number)
ParticipantInsertOk(room_id, token, number) ==
  /\ RoomById(room_id) # {}
  /\ \A p \in room_participants : p.session_token # token
  /\ number \in {1, 2}
  /\ \A p \in room_participants :
        ~(p.room_id = room_id /\ p.participant_number = number)

\* a delete of rooms that leaves their messages behind
CascadeMessages_None(ids) == messages

\* messages.room_id REFERENCES rooms(id) ON DELETE CASCADE
CascadeMessages(ids) == {m \in messages : m.room_id \notin ids}

\* a delete of rooms that leaves their bindings behind
CascadeParticipants_None(ids) == room_participants

\* room_participants.room_id REFERENCES rooms(id) ON DELETE CASCADE
CascadeParticipants(ids) == {p \in room_participants : p.room_id \notin ids}

\* DELETE FROM rooms with its cascades
DeleteRooms(ids) ==
  /\ rooms' = {r \in rooms : r.id \notin ids}
  /\ room_participants' = CascadeParticipants(ids)
  /\ messages' = CascadeMessages(ids)

\* generateSessionToken: 32 random bytes in hex.  Two calls never return the
\* same value; the model numbers the tokens in the order they reach the store.
generateSessionToken == nextToken

\* a store call fails for a transient reason (network, database), within the budget
Faulty(f) == f => faults < MaxFaults

CountFault(f) == faults' = IF f THEN faults + 1 ELSE faults

\* ------------------------------------------------------------------- Init
\* the store with no row and no request in flight
EmptyStore ==
  /\ now = 0
  /\ ticks = 0
  /\ faults = 0
  /\ rooms = {}
  /\ room_participants = {}
  /\ nextRoomId = 1
  /\ cpc = "idle"
  /\ creq = NoCreate
  /\ jpc = [j \in Joiners |-> "idle"]
  /\ jreq = [j \in Joiners |-> NoJoin]
  /\ reply = NoReply
  /\ nextToken = 1
  /\ admitted = [r \in RoomIds |-> 0]
  /\ messages = {}
  /\ nextMsgId = 1
  /\ rpc = "idle"
  /\ rreq = NoRead
  /\ feed = {}

Init == EmptyStore /\ cipher = NoCipher /\ page = NoPage

\* ------------------------------------------------------------------ clock
Tick ==
  /\ ticks < MaxTicks
  /\ \E d \in TickSteps : now' = now + d
  /\ ticks' = ticks + 1
  /\ reply' = NoReply
  /\ UNCHANGED <<faults, rooms, room_participants, nextRoomId, cpc, creq,
                 jpc, jreq, nextToken, admitted, messages, readvars>>

\* ---------------------------------------------------------- action 'create'
\* the validation without its upper bound
InvalidDuration_NoUpperBound(d) ==
  \/ Len(d) = 0
  \/ d[1] = 0
  \/ d[1] < MIN_DURATION

\* !durationMinutes || durationMinutes < 1 || durationMinutes > 120
InvalidDuration(d) ==
  \/ Len(d) = 0
  \/ d[1] = 0
  \/ d[1] < MIN_DURATION
  \/ d[1] > MAX_DURATION

\* the expiry computed with seconds taken for minutes
ExpiresAt_Seconds(t, minutes) == t + minutes * 1000

\* new Date(Date.now() + durationMinutes * 60 * 1000)
ExpiresAt(t, minutes) == t + minutes * MS_PER_MINUTE

CreateFinish(resp) ==
  /\ cpc' = "idle"
  /\ creq' = NoCreate
  /\ reply' = resp

\* validation and expiresAt.  The room code and the session token are
\* generated here too; the model draws each in the step that sends it to
\* the store.
CreateBegin ==
  /\ cpc = "idle"
  /\ \E d \in DurationInputs :
       IF InvalidDuration(d)
       THEN CreateFinish(Response("create", d, 0, 400, "Invalid duration", NoRoom, 0))
       ELSE /\ cpc' = "insertRoom"
            /\ creq' = [NoCreate EXCEPT
                          !.durationMinutes = d,
                          !.requestedAt = now,
                          !.room = [NoRoom EXCEPT
                                      !.duration_minutes = d[1],
                                      !.expires_at = ExpiresAt(now, d[1]),
                                      !.status = "waiting",
                                      !.participant_count = 1]]
            /\ reply' = NoReply
  /\ UNCHANGED <<now, ticks, faults, rooms, room_participants, nextRoomId,
                 jpc, jreq, nextToken, admitted, messages, readvars>>

\* the row the insert stores: id and created_at are column defaults
NewRoom(code) ==
  [creq.room EXCEPT !.id = nextRoomId, !.code = code, !.created_at = now]

\* supabase.from('rooms').insert(...).select().single()
CreateInsertRoom ==
  /\ cpc = "insertRoom"
  /\ \E f \in BOOLEAN, code \in GenCodes :
       /\ Faulty(f)
       /\ CountFault(f)
       /\ f \/ ~RoomsInsertOk(code) \/ nextRoomId <= MaxRooms
       /\ IF f \/ ~RoomsInsertOk(code)
          THEN /\ CreateFinish(Response("create", creq.durationMinutes, 0, 500,
                                        "Failed to create room", NoRoom, 0))
               /\ UNCHANGED <<rooms, nextRoomId>>
          ELSE /\ rooms' = rooms \cup {NewRoom(code)}
               /\ nextRoomId' = nextRoomId + 1
               /\ creq' = [creq EXCEPT !.room = NewRoom(code)]
               /\ cpc' = "insertParticipant"
               /\ reply' = NoReply
  /\ UNCHANGED <<now, ticks, room_participants, jpc, jreq,
                 nextToken, admitted, messages, readvars>>

\* supabase.from('room_participants').insert({... participant_number: 1})
CreateInsertParticipant ==
  /\ cpc = "insertParticipant"
  /\ \E f \in BOOLEAN :
       /\ Faulty(f)
       /\ CountFault(f)
       /\ IF f \/ ~ParticipantInsertOk(creq.room.id, generateSessionToken, 1)
          THEN /\ cpc' = "cleanup"
               /\ reply' = NoReply
               /\ UNCHANGED <<room_participants, creq, nextToken>>
          ELSE /\ room_participants' = room_participants \cup
                    {Participant(creq.room.id, generateSessionToken, 1)}
               /\ nextToken' = nextToken + 1
               /\ CreateFinish(Response("create", creq.durationMinutes, creq.room.id, 200, "",
                                        creq.room, generateSessionToken))
  /\ UNCHANGED <<now, ticks, rooms, nextRoomId, jpc, jreq, admitted,
                 messages, readvars>>

\* "Clean up the room": supabase.from('rooms').delete().eq('id', room.id)
CreateCleanup ==
  /\ cpc = "cleanup"
  /\ \E f \in BOOLEAN :
       /\ Faulty(f)
       /\ CountFault(f)
       /\ IF f THEN UNCHANGED <<rooms, room_participants, messages>>
               ELSE DeleteRooms({creq.room.id})
  /\ CreateFinish(Response("create", creq.durationMinutes, creq.room.id, 500,
                           "Failed to register as participant", NoRoom, 0))
  /\ UNCHANGED <<now, ticks, nextRoomId, jpc, jreq,
                 nextToken, admitted, readvars>>

\* ------------------------------------------------------------ action 'join'
\* new Date(room.expires_at) < new Date()
IsExpiredAt(room, t) == room.expires_at < t

ExpiredErrors == {"This room has expired", "This room is no longer available"}

FullErrors == {"This room is already full", "Failed to join room. It may be full."}

\* the pre-checks on the row the lookup returned; "" lets the request go on
JoinPreCheck(room, t) ==
  IF IsExpiredAt(room, t) THEN "This room has expired"
  ELSE IF room.status = "expired" THEN "This room is no longer available"
  ELSE IF room.status = "active" /\ room.participant_count >= 2
       THEN "This room is already full"
  ELSE ""

\* !code || code.length !== 6
InvalidCode(code) == Len(code) = 0 \/ Len(code) # CODE_LENGTH

\* the room lookup without the normalisation of the code
FindRoom_NoUpperCase(code) == RoomByCode(code)

\* the room lookup .eq('code', code.toUpperCase()).maybeSingle()
FindRoom(code) == RoomByCode(toUpperCase(code))

JoinFinish(j, resp) ==
  /\ jpc' = [jpc EXCEPT ![j] = "idle"]
  /\ jreq' = [jreq EXCEPT ![j] = NoJoin]
  /\ reply' = resp

\* validation, room lookup, pre-checks
JoinLookup(j) ==
  /\ jpc[j] = "idle"
  /\ \E code \in JoinInputs, f \in BOOLEAN :
       /\ Faulty(f)
       /\ IF InvalidCode(code)
          THEN /\ ~f
               /\ JoinFinish(j, Response("join", code, 0, 400, "Invalid room code", NoRoom, 0))
               /\ UNCHANGED faults
          ELSE IF f
          THEN /\ JoinFinish(j, Response("join", code, 0, 500, "Database error", NoRoom, 0))
               /\ CountFault(f)
          ELSE IF FindRoom(code) = {}
          THEN /\ JoinFinish(j, Response("join", code, 0, 404, "Room not found", NoRoom, 0))
               /\ UNCHANGED faults
          ELSE \E room \in FindRoom(code) :
               /\ UNCHANGED faults
               /\ IF JoinPreCheck(room, now) # ""
                  THEN /\ JoinFinish(j, Response("join", code, room.id, 400,
                                                 JoinPreCheck(room, now), NoRoom, 0))
                  ELSE /\ jpc' = [jpc EXCEPT ![j] = "insert"]
                       /\ jreq' = [jreq EXCEPT ![j] =
                             [NoJoin EXCEPT !.code = code, !.roomId = room.id]]
                       /\ reply' = NoReply
  /\ UNCHANGED <<now, ticks, rooms, room_participants, nextRoomId,
                 cpc, creq, nextToken, admitted, messages, readvars>>

\* generateSessionToken and
\* supabase.from('room_participants').insert({... participant_number: 2})
JoinInsertParticipant(j) ==
  /\ jpc[j] = "insert"
  /\ \E f \in BOOLEAN :
       /\ Faulty(f)
       /\ CountFault(f)
       /\ IF f \/ ~ParticipantInsertOk(jreq[j].roomId, generateSessionToken, 2)
          THEN /\ JoinFinish(j, Response("join", jreq[j].code, jreq[j].roomId, 400,
                                         "Failed to join room. It may be full.",
                                         NoRoom, 0))
               /\ UNCHANGED <<room_participants, nextToken>>
          ELSE /\ room_participants' = room_participants \cup
                    {Participant(jreq[j].roomId, generateSessionToken, 2)}
               /\ nextToken' = nextToken + 1
               /\ jpc' = [jpc EXCEPT ![j] = "update"]
               /\ jreq' = [jreq EXCEPT ![j].sessionToken = generateSessionToken]
               /\ reply' = NoReply
  /\ UNCHANGED <<now, ticks, rooms, nextRoomId, cpc, creq, admitted,
                 messages, readvars>>

\* the update without its participant_count
Activated_KeepsCount(room) == [room EXCEPT !.status = "active"]

\* the row after update({status: 'active', participant_count: 2})
Activated(room) == [room EXCEPT !.status = "active", !.participant_count = 2]

\* supabase.from('rooms').update(...).eq('id', room.id).select().single()
JoinUpdateRoom(j) ==
  /\ jpc[j] = "update"
  /\ \E f \in BOOLEAN :
       /\ Faulty(f)
       /\ CountFault(f)
       /\ IF f \/ RoomById(jreq[j].roomId) = {}
          THEN /\ JoinFinish(j, Response("join", jreq[j].code, jreq[j].roomId, 500,
                                         "Failed to join room", NoRoom, 0))
               /\ UNCHANGED <<rooms, admitted>>
          ELSE \E room \in RoomById(jreq[j].roomId) :
               /\ rooms' = (rooms \ {room}) \cup {Activated(room)}
               /\ JoinFinish(j, Response("join", jreq[j].code, jreq[j].roomId, 200, "",
                                         Activated(room), jreq[j].sessionToken))
               /\ admitted' = [admitted EXCEPT ![room.id] = @ + 1]
  /\ UNCHANGED <<now, ticks, room_participants, nextRoomId, cpc, creq,
                 nextToken, messages, readvars>>

\* ------------------------------------------------- the client's expireRoom
\* policy "Rooms viewable by participants only" (FOR SELECT)
RoomsSelectPolicy(room) == ParticipantsOf(room.id) # {}

\* policy "Restricted room status updates": USING
RoomsUpdateUsing(room) == room.status # "expired"

\* policy "Restricted room status updates": WITH CHECK
RoomsUpdateCheck(room) ==
  \/ room.status = "active" /\ room.participant_count = 2
  \/ room.status = "expired"

\* the rows an update through the anon client may change
UpdatableRooms(id) ==
  {r \in RoomById(id) : RoomsSelectPolicy(r) /\ RoomsUpdateUsing(r)}

\* the session token in the sessionStorage of the page that calls expireRoom:
\* the creator of the first room, and a token that no room issued
CallerInputs == {1, 99}

\* supabase.from('rooms').update({ status: 'expired' }).eq('id', roomId)
\* through the anon client: the request carries the room id and no session
\* token (the token in the response's input is the one the page holds); an
\* update that matches no row is no error
expireRoom(id) ==
  /\ id < nextRoomId
  /\ LET hit == {r \in UpdatableRooms(id) :
                    RoomsUpdateCheck([r EXCEPT !.status = "expired"])}
     IN  rooms' = (rooms \ hit) \cup {[r EXCEPT !.status = "expired"] : r \in hit}
  /\ \E token \in CallerInputs :
       reply' = Response("expireRoom", <<id, token>>, id, 204, "", NoRoom, 0)
  /\ UNCHANGED <<now, ticks, faults, room_participants, nextRoomId,
                 cpc, creq, jpc, jreq, nextToken, admitted, messages, readvars>>

\* ------------------------------------------------------ the cleanup sweep
\* UPDATE rooms SET status = 'expired' WHERE expires_at < now() AND status != 'expired'
SweepMarked ==
  {IF r.expires_at < now /\ r.status # "expired"
   THEN [r EXCEPT !.status = "expired"] ELSE r : r \in rooms}

\* the delete evaluated on the rows as they were before the update
SweepPurged_BeforeMark ==
  {r.id : r \in {x \in rooms :
                   x.status = "expired" /\ x.expires_at < now - RETENTION_MS}}

\* the delete without the retention interval
SweepPurged_NoRetention ==
  {r.id : r \in {x \in SweepMarked : x.status = "expired" /\ x.expires_at < now}}

\* DELETE FROM rooms WHERE status = 'expired' AND expires_at < now() - INTERVAL '1 hour'
SweepPurged ==
  {r.id : r \in {x \in SweepMarked :
                   x.status = "expired" /\ x.expires_at < now - RETENTION_MS}}

cleanup_expired_rooms ==
  /\ rooms' = {r \in SweepMarked : r.id \notin SweepPurged}
  /\ room_participants' = CascadeParticipants(SweepPurged)
  /\ messages' = CascadeMessages(SweepPurged)
  /\ reply' = NoReply
  /\ UNCHANGED <<now, ticks, faults, nextRoomId,
                 cpc, creq, jpc, jreq, nextToken, admitted, readvars>>

\* ================================================================ messages
\* Row level security is modelled as the policies are written: the EXISTS of a
\* policy is evaluated on the rows of room_participants.

\* session tokens a caller presents: 0 is a missing one, 1 .. 3 are the
\* tokens of MsgInit, 99 is one that no room ever issued
TokenInputs == {0, 1, 2, 3, 99}

\* room ids a caller presents: 0 is a missing one
ReadRoomIds == {0, 1, 2}

\* codes a caller passes to get: lower case, upper case, missing
GetInputs == { <<"a","b","c","2","3","4">>, <<"Z","Z","Z","Z","Z","Z">>, <<>> }

\* what a caller sends: <<message type, encrypted payload>>
MessageInputs == { <<"text", "c1">>, <<"payment_sent", "c3">> }

\* tokens a caller sends a message with: the creators of room 1 and of
\* room 2, and the token that no room issued
SenderInputs == {1, 3, 99}

\* CHECK (message_type IN ('text', 'image'))
MessageTypes == {"text", "image"}

MessagesOf(id) == {m \in messages : m.room_id = id}

\* the row of legacy sendMessage: content for a text, image_url for an image;
\* id and created_at are column defaults (id is the insertion number here)
Message(room_id, sender_id, type, payload) ==
  [id |-> nextMsgId, room_id |-> room_id, sender_id |-> sender_id,
   content |-> IF type = "text" THEN payload ELSE "",
   image_url |-> IF type = "image" THEN payload ELSE "",
   message_type |-> type, created_at |-> now]

\* an insert policy that looks at the room only
MessagesInsertPolicy_AnyToken(room_id, sender_id) ==
  \E p \in room_participants : p.room_id = room_id

\* policy "Only participants can send messages" (FOR INSERT WITH CHECK)
MessagesInsertPolicy(room_id, sender_id) ==
  \E p \in room_participants :
     p.room_id = room_id /\ p.session_token = sender_id

\* the edge function has no branch for action 'sendMessage': the request of
\* the client's sendMessage falls through to the last return.  The client
\* whose get / getMessages is modelled sends it, one request at a time.
sendMessage ==
  /\ rpc = "idle"
  /\ \E id \in ReadRoomIds \ {0}, token \in SenderInputs :
       reply' = Response("sendMessage", <<id, token>>, id, 400, "Invalid action",
                         NoRoom, 0)
  /\ UNCHANGED <<now, ticks, faults, rooms, room_participants, nextRoomId,
                 cpc, creq, jpc, jreq, nextToken, admitted, messages, readvars>>

\* policy "Messages are readable" (FOR SELECT USING (true))
MessagesSelectPolicy(m) == TRUE

\* Realtime (publication supabase_realtime, table messages): an inserted row
\* goes to the open channel whose filter room_id=eq.<roomId> it matches, if
\* the SELECT policy lets the channel's role (anon) read the row
Delivered(row) ==
  IF rpc = "subscribed" /\ rreq.roomId = row.room_id /\ MessagesSelectPolicy(row)
  THEN {row} ELSE {}

\* supabase.from('messages').insert({...}).select().single() through the anon
\* client: the sender_id is the caller's session token
MessagesInsertBy(id, token, msg, f) ==
  /\ Faulty(f)
  /\ CountFault(f)
  /\ IF f
     THEN /\ reply' = Response("insert", <<id, token>>, id, 500,
                               "Error sending message", NoRoom, 0)
          /\ UNCHANGED <<messages, nextMsgId, feed>>
     ELSE IF ~MessagesInsertPolicy(id, token)
     THEN /\ reply' = Response("insert", <<id, token>>, id, 403,
                               "new row violates row-level security policy",
                               NoRoom, 0)
          /\ UNCHANGED <<messages, nextMsgId, feed>>
     ELSE IF RoomById(id) = {}
     THEN /\ reply' = Response("insert", <<id, token>>, id, 409,
                               "violates foreign key constraint", NoRoom, 0)
          /\ UNCHANGED <<messages, nextMsgId, feed>>
     ELSE IF msg[1] \notin MessageTypes
     THEN /\ reply' = Response("insert", <<id, token>>, id, 400,
                               "violates check constraint", NoRoom, 0)
          /\ UNCHANGED <<messages, nextMsgId, feed>>
     ELSE /\ nextMsgId <= MaxMessages
          /\ messages' = messages \cup {Message(id, token, msg[1], msg[2])}
          /\ nextMsgId' = nextMsgId + 1
          /\ feed' = feed \cup Delivered(Message(id, token, msg[1], msg[2]))
          /\ reply' = [Response("insert", <<id, token>>, id, 201, "", NoRoom, 0)
                        EXCEPT !.messages = <<Message(id, token, msg[1], msg[2])>>]
  /\ UNCHANGED <<now, ticks, rooms, room_participants, nextRoomId,
                 cpc, creq, jpc, jreq, nextToken, admitted, rpc, rreq,
                 pagevars>>

\* the inserts of the callers of the model
MessagesInsert ==
  \E id \in ReadRoomIds \ {0}, token \in SenderInputs,
     msg \in MessageInputs, f \in BOOLEAN : MessagesInsertBy(id, token, msg, f)

\* --------------------------------------------------------------- action 'get'
ReadFinish(resp) ==
  /\ rpc' = "idle"
  /\ rreq' = NoRead
  /\ reply' = resp

\* a binding check that looks at the token only
Authorized_AnyRoom(room_id, token) ==
  \E p \in room_participants : p.session_token = token

\* .from('room_participants').select().eq('room_id', ...)
\*    .eq('session_token', sessionToken).single()
Authorized(room_id, token) ==
  \E p \in room_participants :
     p.room_id = room_id /\ p.session_token = token

\* validation and the room lookup .eq('code', code.toUpperCase()).single()
GetFindRoom ==
  /\ rpc = "idle"
  /\ \E code \in GetInputs, token \in TokenInputs, f \in BOOLEAN :
       /\ Faulty(f)
       /\ IF Len(code) = 0 \/ token = 0
          THEN /\ ~f
               /\ ReadFinish(Response("get", code, 0, 400,
                                      "Missing code or session token", NoRoom, 0))
               /\ UNCHANGED faults
          ELSE IF f \/ FindRoom(code) = {}
          THEN /\ ReadFinish(Response("get", code, 0, 404, "Room not found", NoRoom, 0))
               /\ CountFault(f)
          ELSE \E room \in FindRoom(code) :
               /\ rpc' = "getAuthorize"
               /\ rreq' = [NoRead EXCEPT !.op = "get", !.code = code,
                             !.roomId = room.id, !.sessionToken = token, !.room = room]
               /\ reply' = NoReply
               /\ UNCHANGED faults
  /\ UNCHANGED <<now, ticks, rooms, room_participants, nextRoomId,
                 cpc, creq, jpc, jreq, nextToken, admitted, messages, nextMsgId,
                 feed, pagevars>>

\* "Verify the session token is a participant" and the response
GetAuthorize ==
  /\ rpc = "getAuthorize"
  /\ \E f \in BOOLEAN :
       /\ Faulty(f)
       /\ CountFault(f)
       /\ IF f \/ ~Authorized(rreq.roomId, rreq.sessionToken)
          THEN ReadFinish(Response("get", rreq.code, rreq.roomId, 403,
                                   "Not authorized to access this room", NoRoom, 0))
          ELSE \E p \in {x \in room_participants :
                           /\ x.room_id = rreq.roomId
                           /\ x.session_token = rreq.sessionToken} :
               ReadFinish([Response("get", rreq.code, rreq.roomId, 200, "",
                                    rreq.room, 0)
                             EXCEPT !.participantNumber = <<p.participant_number>>])
  /\ UNCHANGED <<now, ticks, rooms, room_participants, nextRoomId,
                 cpc, creq, jpc, jreq, nextToken, admitted, messages, nextMsgId,
                 feed, pagevars>>

\* ------------------------------------------------------- action 'getMessages'
\* validation and "Verify the session token is a participant of this room"
GetMessagesAuthorize ==
  /\ rpc = "idle"
  /\ \E id \in ReadRoomIds, token \in TokenInputs, f \in BOOLEAN :
       /\ Faulty(f)
       /\ IF id = 0 \/ token = 0
          THEN /\ ~f
               /\ ReadFinish(Response("getMessages", <<id, token>>, id, 400,
                                      "Missing roomId or session token", NoRoom, 0))
               /\ UNCHANGED faults
          ELSE IF f \/ ~Authorized(id, token)
          THEN /\ ReadFinish(Response("getMessages", <<id, token>>, id, 403,
                                      "Not authorized to access this room", NoRoom, 0))
               /\ CountFault(f)
          ELSE /\ rpc' = "fetch"
               /\ rreq' = [NoRead EXCEPT !.op = "getMessages", !.roomId = id,
                             !.sessionToken = token]
               /\ reply' = NoReply
               /\ UNCHANGED faults
  /\ UNCHANGED <<now, ticks, rooms, room_participants, nextRoomId,
                 cpc, creq, jpc, jreq, nextToken, admitted, messages, nextMsgId,
                 feed, pagevars>>

\* the sequences that hold each row of S once
Arrangements(S) ==
  {q \in [1 .. Cardinality(S) -> S] :
     \A i, j \in 1 .. Cardinality(S) : i # j => q[i] # q[j]}

\* .order('created_at', { ascending: true }): rows with equal created_at
\* come in an order the store chooses
OrderedRows(S) ==
  {q \in Arrangements(S) :
     \A i, j \in 1 .. Cardinality(S) : i < j => q[i].created_at <= q[j].created_at}

\* "Fetch messages for the room" and the response
GetMessagesFetch ==
  /\ rpc = "fetch"
  /\ \E f \in BOOLEAN :
       /\ Faulty(f)
       /\ CountFault(f)
       /\ IF f
          THEN ReadFinish(Response("getMessages", <<rreq.roomId, rreq.sessionToken>>,
                                   rreq.roomId, 500, "Failed to fetch messages",
                                   NoRoom, 0))
          ELSE \E q \in OrderedRows(MessagesOf(rreq.roomId)) :
               ReadFinish([Response("getMessages", <<rreq.roomId, rreq.sessionToken>>,
                                    rreq.roomId, 200, "", NoRoom, 0)
                             EXCEPT !.messages = q])
  /\ UNCHANGED <<now, ticks, rooms, room_participants, nextRoomId,
                 cpc, creq, jpc, jreq, nextToken, admitted, messages, nextMsgId,
                 feed, pagevars>>

\* ------------------------------------------------------- subscribeToMessages
\* the session token in the sessionStorage of the page that opens a channel:
\* the joiner of room 1, and a token that no room issued
ListenerInputs == {2, 99}

\* channel(`room-messages-${roomId}`).on('postgres_changes', ...).subscribe():
\* the request carries the room id and no session token, and the channel is
\* joined whatever the room is.  The page holds the channel until it removes
\* it (rreq.sessionToken is the token the page holds, which it never sends).
subscribeToMessages ==
  /\ rpc = "idle"
  /\ \E id \in ReadRoomIds \ {0}, token \in ListenerInputs :
       /\ rpc' = "subscribed"
       /\ rreq' = [NoRead EXCEPT !.op = "subscribe", !.roomId = id,
                                 !.sessionToken = token]
       /\ reply' = Response("subscribe", <<id>>, id, 200, "", NoRoom, 0)
  /\ feed' = {}
  /\ UNCHANGED <<now, ticks, faults, rooms, room_participants, nextRoomId,
                 cpc, creq, jpc, jreq, nextToken, admitted, messages, nextMsgId,
                 pagevars>>

\* the function subscribeToMessages returns: supabase.removeChannel(channel)
removeChannel ==
  /\ rpc = "subscribed"
  /\ ReadFinish(NoReply)
  /\ feed' = {}
  /\ UNCHANGED <<now, ticks, faults, rooms, room_participants, nextRoomId,
                 cpc, creq, jpc, jreq, nextToken, admitted, messages, nextMsgId,
                 pagevars>>

Next ==
  \/ Tick
  \/ CreateBegin
  \/ CreateInsertRoom
  \/ CreateInsertParticipant
  \/ CreateCleanup
  \/ \E j \in Joiners : JoinLookup(j)
  \/ \E j \in Joiners : JoinInsertParticipant(j)
  \/ \E j \in Joiners : JoinUpdateRoom(j)
  \/ \E id \in RoomIds : expireRoom(id)
  \/ cleanup_expired_rooms

Spec == Init /\ [][Next]_vars

\* ------------------------------------------------- messaging on stored rooms
\* the codes and durations of the two rooms of MsgInit
MsgRooms ==
  { [NoRoom EXCEPT !.id = 1, !.code = <<"A","B","C","2","3","4">>,
                   !.duration_minutes = MIN_DURATION,
                   !.expires_at = ExpiresAt(0, MIN_DURATION),
                   !.status = "waiting", !.participant_count = 1],
    [NoRoom EXCEPT !.id = 2, !.code = <<"Z","Z","Z","Z","Z","Z">>,
                   !.duration_minutes = MAX_DURATION,
                   !.expires_at = ExpiresAt(0, MAX_DURATION),
                   !.status = "waiting", !.participant_count = 1] }

MsgRoomIds == {r.id : r \in MsgRooms}

\* the store after create(1), join of that room and create(120): room 1 is
\* active with the tokens 1 and 2, room 2 is waiting with the token 3
EstablishedStore ==
  /\ now = 0
  /\ ticks = 0
  /\ faults = 0
  /\ rooms = {IF r.id = 1 THEN Activated(r) ELSE r : r \in MsgRooms}
  /\ room_participants =
       {Participant(1, 1, 1), Participant(1, 2, 2), Participant(2, 3, 1)}
  /\ nextRoomId = 3
  /\ cpc = "idle"
  /\ creq = NoCreate
  /\ jpc = [j \in Joiners |-> "idle"]
  /\ jreq = [j \in Joiners |-> NoJoin]
  /\ reply = NoReply
  /\ nextToken = 4
  /\ admitted = [r \in RoomIds |-> IF r = 1 THEN 1 ELSE 0]
  /\ messages = {}
  /\ nextMsgId = 1
  /\ rpc = "idle"
  /\ rreq = NoRead
  /\ feed = {}
  /\ cipher = NoCipher

MsgInit == EstablishedStore /\ page = NoPage

MsgNext ==
  \/ Tick
  \/ \E id \in MsgRoomIds : expireRoom(id)
  \/ cleanup_expired_rooms
  \/ sendMessage
  \/ MessagesInsert
  \/ GetFindRoom
  \/ GetAuthorize
  \/ GetMessagesAuthorize
  \/ GetMessagesFetch
  \/ subscribeToMessages
  \/ removeChannel

MsgSpec == MsgInit /\ [][MsgNext]_vars

\* ================================================================== crypto
\* A string is the sequence of its UTF-16 code units, a byte array a sequence
\* of numbers 0 .. 255.

\* U+FFFD, what an encoder or decoder puts for what it cannot convert
REPLACEMENT == 65533
\* U+FEFF, the byte order mark
BOM == 65279

IsHigh(u) == u >= 55296 /\ u <= 56319

IsLow(u) == u >= 56320 /\ u <= 57343

\* the scalar values of a string: a surrogate pair is one value, a surrogate
\* without its partner becomes U+FFFD
RECURSIVE ToScalars(_)
ToScalars(s) ==
  IF s = <<>> THEN <<>>
  ELSE IF IsHigh(s[1]) /\ Len(s) >= 2 /\ IsLow(s[2])
       THEN <<65536 + (s[1] - 55296) * 1024 + (s[2] - 56320)>>
               \o ToScalars(SubSeq(s, 3, Len(s)))
  ELSE IF IsHigh(s[1]) \/ IsLow(s[1])
       THEN <<REPLACEMENT>> \o ToScalars(Tail(s))
  ELSE <<s[1]>> \o ToScalars(Tail(s))

\* the code units of scalar values
RECURSIVE FromScalars(_)
FromScalars(cps) ==
  IF cps = <<>> THEN <<>>
  ELSE IF cps[1] < 65536 THEN <<cps[1]>> \o FromScalars(Tail(cps))
  ELSE <<55296 + ((cps[1] - 65536) \div 1024), 56320 + ((cps[1] - 65536) % 1024)>>
          \o FromScalars(Tail(cps))

\* the UTF-8 bytes of one scalar value
Utf8(cp) ==
  IF cp < 128 THEN <<cp>>
  ELSE IF cp < 2048 THEN <<192 + (cp \div 64), 128 + (cp % 64)>>
  ELSE IF cp < 65536
       THEN <<224 + (cp \div 4096), 128 + ((cp \div 64) % 64), 128 + (cp % 64)>>
  ELSE <<240 + (cp \div 262144), 128 + ((cp \div 4096) % 64),
         128 + ((cp \div 64) % 64), 128 + (cp % 64)>>

RECURSIVE Utf8All(_)
Utf8All(cps) == IF cps = <<>> THEN <<>> ELSE Utf8(cps[1]) \o Utf8All(Tail(cps))

\* encoder.encode(s), encoder = new TextEncoder()
encode(s) == Utf8All(ToScalars(s))

\* the length of the UTF-8 sequence a byte begins, 0 if it begins none
Utf8Need(b) ==
  IF b < 128 THEN 1
  ELSE IF b >= 194 /\ b <= 223 THEN 2
  ELSE IF b >= 224 /\ b <= 239 THEN 3
  ELSE IF b >= 240 /\ b <= 244 THEN 4
  ELSE 0

Utf8Value(b, n) ==
  IF n = 2 THEN (b[1] - 192) * 64 + (b[2] - 128)
  ELSE IF n = 3 THEN (b[1] - 224) * 4096 + (b[2] - 128) * 64 + (b[3] - 128)
  ELSE (b[1] - 240) * 262144 + (b[2] - 128) * 4096 + (b[3] - 128) * 64
          + (b[4] - 128)

\* the scalar values of UTF-8 bytes; a byte that fits no sequence gives U+FFFD
RECURSIVE Utf8Decode(_)
Utf8Decode(b) ==
  IF b = <<>> THEN <<>>
  ELSE LET n == Utf8Need(b[1])
       IN  IF n = 1 THEN <<b[1]>> \o Utf8Decode(Tail(b))
           ELSE IF /\ n >= 2
                   /\ Len(b) >= n
                   /\ \A i \in 2 .. n : b[i] >= 128 /\ b[i] < 192
                THEN <<Utf8Value(b, n)>> \o Utf8Decode(SubSeq(b, n + 1, Len(b)))
           ELSE <<REPLACEMENT>> \o Utf8Decode(Tail(b))

\* decoder.decode(bytes), decoder = new TextDecoder(): not fatal, and
\* ignoreBOM is false, which drops a byte order mark at the start
decode(bytes) ==
  LET cps == Utf8Decode(bytes)
  IN  FromScalars(IF cps # <<>> /\ cps[1] = BOM THEN Tail(cps) ELSE cps)

\* a base64 digit as a character
B64Char(d) ==
  IF d < 26 THEN 65 + d
  ELSE IF d < 52 THEN 97 + (d - 26)
  ELSE IF d < 62 THEN 48 + (d - 52)
  ELSE IF d = 62 THEN 43 ELSE 47

\* the digit of a base64 character, -1 for any other character
B64Digit(c) ==
  IF c >= 65 /\ c <= 90 THEN c - 65
  ELSE IF c >= 97 /\ c <= 122 THEN c - 97 + 26
  ELSE IF c >= 48 /\ c <= 57 THEN c - 48 + 52
  ELSE IF c = 43 THEN 62
  ELSE IF c = 47 THEN 63 ELSE -1

\* btoa(String.fromCharCode(...bytes)): every byte is a character below 256
RECURSIVE btoa(_)
btoa(b) ==
  IF b = <<>> THEN <<>>
  ELSE IF Len(b) = 1
       THEN <<B64Char(b[1] \div 4), B64Char((b[1] % 4) * 16), 61, 61>>
  ELSE IF Len(b) = 2
       THEN <<B64Char(b[1] \div 4), B64Char((b[1] % 4) * 16 + (b[2] \div 16)),
              B64Char((b[2] % 16) * 4), 61>>
  ELSE <<B64Char(b[1] \div 4), B64Char((b[1] % 4) * 16 + (b[2] \div 16)),
         B64Char((b[2] % 16) * 4 + (b[3] \div 64)), B64Char(b[3] % 64)>>
          \o btoa(SubSeq(b, 4, Len(b)))

\* what a call returns, or that it threw
Returned(v) == [threw |-> FALSE, value |-> v]

Threw == [threw |-> TRUE, value |-> <<>>]

\* the bytes of base64 digits, the bits left over dropped
RECURSIVE B64Bytes(_)
B64Bytes(d) ==
  IF Len(d) < 2 THEN <<>>
  ELSE IF Len(d) = 2 THEN <<d[1] * 4 + (d[2] \div 16)>>
  ELSE IF Len(d) = 3
       THEN <<d[1] * 4 + (d[2] \div 16), (d[2] % 16) * 16 + (d[3] \div 4)>>
  ELSE <<d[1] * 4 + (d[2] \div 16), (d[2] % 16) * 16 + (d[3] \div 4),
         (d[3] % 4) * 64 + d[4]>> \o B64Bytes(SubSeq(d, 5, Len(d)))

\* atob(s).split("").map((c) => c.charCodeAt(0)): white space is skipped, one
\* or two "=" end a text whose length is a multiple of 4, and atob throws
\* for any other character and for a length that is 1 more than a multiple of 4
atob(s) ==
  LET t == SelectSeq(s, LAMBDA c : c \notin {9, 10, 12, 13, 32})
      n == Len(t)
      pad == IF n % 4 = 0 /\ n >= 2 /\ t[n] = 61
             THEN (IF t[n - 1] = 61 THEN 2 ELSE 1) ELSE 0
      body == SubSeq(t, 1, n - pad)
  IN  IF Len(body) % 4 = 1 \/ \E i \in DOMAIN body : B64Digit(body[i]) = -1
      THEN Threw
      ELSE Returned(B64Bytes([i \in DOMAIN body |-> B64Digit(body[i])]))

RECURSIVE Sum(_)
Sum(b) == IF b = <<>> THEN 0 ELSE b[1] + Sum(Tail(b))

\* Uint8Array.prototype.slice(start, end), 0-based, end excluded and clamped
slice(b, start, end) ==
  SubSeq(b, start + 1, IF end < Len(b) THEN end ELSE Len(b))

\* "ghost-chat-salt-v1"
SALT == "ghost-chat-salt-v1"

\* getKey: the AES-GCM key that PBKDF2 (SHA-256, 100000 iterations, the static
\* salt) derives from the bytes of the room code.  PBKDF2 is taken to give
\* different keys for different bytes.
getKey(roomCode) ==
  [name |-> "AES-GCM", length |-> 256, salt |-> SALT, material |-> encode(roomCode)]

TAG_LENGTH == 16
IV_LENGTH == 12

\* AES-GCM is modelled by a cipher with its three properties: the output is
\* the input's length plus a 16-byte tag, decrypt inverts encrypt under the
\* same key and iv, and the tag verifies under no other key and after no
\* change of a single byte.
KeyStream(key, iv, i) == (Sum(key.material) + Sum(iv) + 7 * i) % 256

\* the tag: the key's material (at most 15 bytes here) and its length,
\* shifted by a weighted sum of the iv and the ciphertext
Tag(key, iv, ct) ==
  LET data == iv \o ct
      chk == Sum([i \in DOMAIN data |-> (2 * i + 1) * data[i]])
  IN  [j \in 1 .. TAG_LENGTH |->
         ((IF j <= Len(key.material) THEN key.material[j]
           ELSE IF j = TAG_LENGTH THEN Len(key.material) ELSE 0) + chk) % 256]

\* crypto.subtle.encrypt({ name: "AES-GCM", iv }, key, encoded)
subtle_encrypt(key, iv, encoded) ==
  LET ct == [i \in DOMAIN encoded |-> (encoded[i] + KeyStream(key, iv, i)) % 256]
  IN  ct \o Tag(key, iv, ct)

\* crypto.subtle.decrypt({ name: "AES-GCM", iv }, key, ciphertext): throws
\* OperationError when the tag does not verify
subtle_decrypt(key, iv, ciphertext) ==
  IF Len(ciphertext) < TAG_LENGTH \/ iv = <<>> THEN Threw
  ELSE LET n == Len(ciphertext) - TAG_LENGTH
           ct == SubSeq(ciphertext, 1, n)
       IN  IF SubSeq(ciphertext, n + 1, Len(ciphertext)) # Tag(key, iv, ct)
           THEN Threw
           ELSE Returned([i \in 1 .. n |->
                            (ct[i] + 256 - KeyStream(key, iv, i)) % 256])

\* encryptMessage; iv is what crypto.getRandomValues(new Uint8Array(12)) gave
encryptMessage(text, roomCode, iv) ==
  btoa(iv \o subtle_encrypt(getKey(roomCode), iv, encode(text)))

\* "[Message could not be decrypted]"
DECRYPTION_FAILED == <<91, 77, 101, 115, 115, 97, 103, 101, 32, 99, 111, 117, 108, 100, 32, 110, 111, 116, 32, 98, 101, 32, 100, 101, 99, 114, 121, 112, 116, 101, 100, 93>>

\* decryptMessage with the decoding outside its try
decryptMessage_NoCatch(encryptedBase64, roomCode) ==
  LET combined == atob(encryptedBase64)
  IN  IF combined.threw THEN Threw
      ELSE LET opened == subtle_decrypt(getKey(roomCode),
                            slice(combined.value, 0, IV_LENGTH),
                            slice(combined.value, IV_LENGTH,
                                  Len(combined.value)))
           IN  IF opened.threw THEN Returned(DECRYPTION_FAILED)
               ELSE Returned(decode(opened.value))

\* decryptMessage: whatever throws inside the try gives the fixed text
decryptMessage(encryptedBase64, roomCode) ==
  LET combined == atob(encryptedBase64)
  IN  IF combined.threw THEN Returned(DECRYPTION_FAILED)
      ELSE LET opened == subtle_decrypt(getKey(roomCode),
                            slice(combined.value, 0, IV_LENGTH),
                            slice(combined.value, IV_LENGTH,
                                  Len(combined.value)))
           IN  IF opened.threw THEN Returned(DECRYPTION_FAILED)
               ELSE Returned(decode(opened.value))

Digits == <<"0","1","2","3","4","5","6","7","8","9">>

\* String.prototype.charCodeAt for the characters of codes
charCodeAt(c) ==
  IF \E i \in DOMAIN UpperLetters : UpperLetters[i] = c
  THEN 64 + (CHOOSE i \in DOMAIN UpperLetters : UpperLetters[i] = c)
  ELSE IF \E i \in DOMAIN LowerLetters : LowerLetters[i] = c
  THEN 96 + (CHOOSE i \in DOMAIN LowerLetters : LowerLetters[i] = c)
  ELSE 47 + (CHOOSE i \in DOMAIN Digits : Digits[i] = c)

\* the code units of a room code
Units(code) == [i \in DOMAIN code |-> charCodeAt(code[i])]

\* ------------------------------------------- a text from one page to another
\* length of the texts of CipherInit
MaxTextLen == 2

\* code units of the texts: a, e acute, the byte order mark, and the two
\* halves of a surrogate pair
TextUnits == {97, 233, BOM, 55357, 56832}

\* the texts a page encrypts: every string of TextUnits up to MaxTextLen, and
\* the text decryptMessage returns when it fails
Texts ==
  UNION {[1 .. n -> TextUnits] : n \in 0 .. MaxTextLen} \cup {DECRYPTION_FAILED}

\* the code in the route of a page: "ABC234", "abc234", a lone surrogate, U+FFFD
CipherCodes == { <<65, 66, 67, 50, 51, 52>>, <<97, 98, 99, 50, 51, 52>>,
                 <<55357>>, <<REPLACEMENT>> }

\* what crypto.getRandomValues(new Uint8Array(12)) gives
IVs == { [i \in 1 .. IV_LENGTH |-> 0], [i \in 1 .. IV_LENGTH |-> 17 * i] }

\* a blob after a change on its way: its first character replaced, its last
\* four characters dropped, a character added that is no base64 character
Damaged(b) ==
  { [b EXCEPT ![1] = IF b[1] = 65 THEN 66 ELSE 65],
    SubSeq(b, 1, Len(b) - 4),
    b \o <<91>> }

\* contents that no encryptMessage produced: "", "a", "YQ==", and a plain text
Garbage == { <<>>, <<97>>, <<89, 81, 61, 61>>, DECRYPTION_FAILED }

CipherInit ==
  /\ EmptyStore
  /\ page = NoPage
  /\ \E text \in Texts, c1 \in CipherCodes, c2 \in CipherCodes, iv \in IVs :
       cipher = [NoCipher EXCEPT !.pc = "start", !.text = text, !.roomCode = c1,
                                 !.readerCode = c2, !.iv = iv]

\* handleSend: encryptMessage(messageContent, code), the content of the row
CipherSend ==
  /\ cipher.pc = "start"
  /\ cipher' = [cipher EXCEPT
                  !.pc = "sent",
                  !.sent = encryptMessage(cipher.text, cipher.roomCode, cipher.iv),
                  !.received = encryptMessage(cipher.text, cipher.roomCode, cipher.iv)]
  /\ UNCHANGED <<now, ticks, faults, rooms, room_participants, nextRoomId, cpc, creq,
                 jpc, jreq, reply, nextToken, admitted, messages, nextMsgId,
                 rpc, rreq, feed, page>>

\* the content reaches the other page changed, or is none that a page encrypted
CipherDamage ==
  /\ \/ /\ cipher.pc = "sent"
        /\ \E b \in Damaged(cipher.sent) :
             cipher' = [cipher EXCEPT !.pc = "damaged", !.received = b,
                                      !.intact = FALSE]
     \/ /\ cipher.pc = "start"
        /\ \E b \in Garbage :
             cipher' = [cipher EXCEPT !.pc = "damaged", !.received = b,
                                      !.intact = FALSE]
  /\ UNCHANGED <<now, ticks, faults, rooms, room_participants, nextRoomId, cpc, creq,
                 jpc, jreq, reply, nextToken, admitted, messages, nextMsgId,
                 rpc, rreq, feed, page>>

\* the subscription callback: decryptMessage(newMessage.content, code)
CipherReceive ==
  /\ cipher.pc \in {"sent", "damaged"}
  /\ LET r == decryptMessage(cipher.received, cipher.readerCode)
     IN  cipher' = [cipher EXCEPT !.pc = "read", !.threw = r.threw,
                                  !.out = r.value]
  /\ UNCHANGED <<now, ticks, faults, rooms, room_participants, nextRoomId, cpc, creq,
                 jpc, jreq, reply, nextToken, admitted, messages, nextMsgId,
                 rpc, rreq, feed, page>>

CipherNext == CipherSend \/ CipherDamage \/ CipherReceive

CipherSpec == CipherInit /\ [][CipherNext]_vars

\* --------------------------------------------------- what is bound to happen
\* A request the edge function has begun runs to its answer, and the clock
\* goes on.  cleanup_expired_rooms is only declared: the migrations schedule
\* no job for it and no trigger, edge function or client calls it.
\* expireRoom runs in the timer of a ChatRoom page that is open at the
\* deadline.  Neither is bound to happen.
LiveSpec ==
  /\ Init
  /\ [][Next]_vars
  /\ WF_vars(Tick)
  /\ WF_vars(CreateInsertRoom)
  /\ WF_vars(CreateInsertParticipant)
  /\ WF_vars(CreateCleanup)
  /\ \A j \in Joiners : WF_vars(JoinInsertParticipant(j))
  /\ \A j \in Joiners : WF_vars(JoinUpdateRoom(j))

\* =========================================================== the ChatRoom page
\* One tab on /chat/:code over the established store.  The other pages and
\* the store's own work are the clock, expireRoom of another page and
\* cleanup_expired_rooms.

\* the route parameter: the code as CreateRoom and JoinRoom navigate to it,
\* and the same address typed in lower case
PageRoutes == { <<"A","B","C","2","3","4">>, <<"a","b","c","2","3","4">> }

\* sessionStorage of the tab: as createRoom (roomSessionToken, roomCode) and
\* handleCreate (currentRoomCode) left it for room 1, or empty
PageSessions == {1, 0}

\* what the user types, a data URL of the canvas (its first character), and
\* JSON.stringify(paymentData) (its braces)
MessageTexts == { <<104, 105>> }
ImageData == { <<100>> }
PaymentData == { <<123, 125>> }

PageInit ==
  /\ EstablishedStore
  /\ \E c \in PageRoutes, t \in PageSessions :
       page = [NoPage EXCEPT !.pc = "mounted", !.code = c,
                             !.roomSessionToken = t,
                             !.roomCode = IF t = 0 THEN <<>>
                                          ELSE <<"A","B","C","2","3","4">>,
                             !.currentRoomCode =
                                IF t = 0 THEN <<>>
                                ELSE <<"A","B","C","2","3","4">>]

pagestore == <<rooms, room_participants, nextRoomId, cpc, creq, jpc, jreq,
               nextToken, admitted, messages, nextMsgId, rpc, rreq, feed, cipher>>

\* the effect loadRoom: no session token, navigate('/'); getRoomByCode(code),
\* the two reads of action 'get' with code.toUpperCase() and the stored
\* token, null for every failure; then the expiry test
loadRoom ==
  /\ page.pc = "mounted"
  /\ \E f \in BOOLEAN :
       /\ Faulty(f)
       /\ IF page.roomSessionToken = 0
          THEN /\ ~f
               /\ page' = [page EXCEPT !.pc = "left"]
               /\ reply' = NoReply
               /\ UNCHANGED faults
          ELSE /\ CountFault(f)
               /\ IF \/ f
                     \/ FindRoom(page.code) = {}
                     \/ \A r \in FindRoom(page.code) :
                           ~Authorized(r.id, page.roomSessionToken)
                  THEN /\ page' = [page EXCEPT !.pc = "left"]
                       /\ reply' = IF f \/ FindRoom(page.code) = {}
                                   THEN Response("get", page.code, 0, 404,
                                                 "Room not found", NoRoom, 0)
                                   ELSE Response("get", page.code, 0, 403,
                                                 "Not authorized to access this room",
                                                 NoRoom, 0)
                  ELSE \E roomData \in FindRoom(page.code) :
                       /\ reply' = Response("get", page.code, roomData.id, 200,
                                            "", roomData, 0)
                       /\ IF roomData.status = "expired" \/ roomData.expires_at < now
                          THEN page' = [page EXCEPT !.pc = "open",
                                                    !.isExpired = TRUE]
                          ELSE page' = [page EXCEPT !.pc = "open",
                                                    !.room = roomData]
  /\ UNCHANGED <<now, ticks, pagestore>>

\* the callback of subscribeToRoom: an UPDATE of the room's row arrives
roomUpdated ==
  /\ page.pc = "open"
  /\ page.room # NoRoom
  /\ \E updatedRoom \in RoomById(page.room.id) :
       /\ updatedRoom # page.room
       /\ page' = [page EXCEPT
                     !.isExpired = page.isExpired \/ updatedRoom.status = "expired",
                     !.room = updatedRoom]
  /\ reply' = NoReply
  /\ UNCHANGED <<now, ticks, faults, pagestore>>

\* the interval of the timer effect, at expires_at or later:
\* setIsExpired(true) and the call of expireRoom(room.id)
timerExpired ==
  /\ page.pc = "open"
  /\ page.room # NoRoom
  /\ ~page.isExpired
  /\ page.room.expires_at <= now
  /\ page' = [page EXCEPT !.pc = "expireRoom", !.isExpired = TRUE]
  /\ reply' = NoReply
  /\ UNCHANGED <<now, ticks, faults, pagestore>>

\* clearSession(): removeItem of roomSessionToken and of roomCode
clearSession(p) == [p EXCEPT !.roomSessionToken = 0, !.roomCode = <<>>]

\* expireRoom of this page: the update of the row, its error only logged,
\* then clearSession()
pageExpireRoom ==
  /\ page.pc = "expireRoom"
  /\ \E f \in BOOLEAN :
       /\ Faulty(f)
       /\ CountFault(f)
       /\ LET hit == IF f THEN {}
                     ELSE {r \in UpdatableRooms(page.room.id) :
                             RoomsUpdateCheck([r EXCEPT !.status = "expired"])}
          IN  rooms' = (rooms \ hit) \cup
                         {[r EXCEPT !.status = "expired"] : r \in hit}
       /\ reply' = Response("expireRoom", <<page.room.id, page.roomSessionToken>>,
                            page.room.id, IF f THEN 500 ELSE 204, "", NoRoom, 0)
  /\ page' = [clearSession(page) EXCEPT !.pc = "open"]
  /\ UNCHANGED <<now, ticks, room_participants, nextRoomId, cpc, creq, jpc, jreq,
                 nextToken, admitted, messages, nextMsgId, rpc, rreq, feed, cipher>>

\* the body of the client's sendMessage: content for a text only, imageUrl
\* for an image only
sendMessageBody(call) ==
  [content |-> IF call.type = "text" THEN call.content ELSE <<>>,
   type |-> call.type,
   imageUrl |-> IF call.type = "image" THEN call.imageUrl ELSE <<>>]

\* sendMessage(roomId, content, senderId, type, imageUrl) of the page: the
\* request goes out with the stored token if there is one, and the edge
\* function answers it as sendMessage above
pageSendMessage(call) ==
  /\ page' = [page EXCEPT
                !.sent = call,
                !.body = IF page.roomSessionToken = 0 THEN NoCall
                         ELSE sendMessageBody(call)]
  /\ reply' = IF page.roomSessionToken = 0 THEN NoReply
              ELSE Response("sendMessage", <<page.room.id, page.roomSessionToken>>,
                            page.room.id, 400, "Invalid action", NoRoom, 0)
  /\ UNCHANGED <<now, ticks, faults, pagestore>>

\* the chat view is rendered: a room is loaded and the page is not expired;
\* sessionToken is read from sessionStorage at render
ChatView ==
  /\ page.pc = "open"
  /\ page.room # NoRoom
  /\ ~page.isExpired
  /\ page.roomSessionToken # 0

\* handleSend
handleSend ==
  /\ ChatView
  /\ \E messageContent \in MessageTexts, iv \in IVs :
       pageSendMessage([content |-> <<encryptMessage(messageContent,
                                                     Units(page.code), iv)>>,
                        type |-> "text", imageUrl |-> <<>>])

\* capturePhoto
capturePhoto ==
  /\ ChatView
  /\ \E imageData \in ImageData, iv \in IVs :
       pageSendMessage([content |-> << <<>> >>, type |-> "image",
                        imageUrl |-> <<encryptMessage(imageData,
                                                      Units(page.code), iv)>>])

\* handlePaymentSuccess
handlePaymentSuccess ==
  /\ ChatView
  /\ \E paymentData \in PaymentData, iv \in IVs :
       pageSendMessage([content |-> <<encryptMessage(paymentData,
                                                     Units(page.code), iv)>>,
                        type |-> "payment_sent", imageUrl |-> <<>>])

PageNext ==
  \/ Tick
  \/ \E id \in MsgRoomIds : expireRoom(id)
  \/ cleanup_expired_rooms
  \/ loadRoom
  \/ roomUpdated
  \/ timerExpired
  \/ pageExpireRoom
  \/ handleSend
  \/ capturePhoto
  \/ handlePaymentSuccess

PageSpec == PageInit /\ [][PageNext]_vars

\* ------------------------------------------------- the page's message list
\* the component is mounted on the chat route
Mounted == page.pc \in {"mounted", "open"}

\* loadRoom after setRoom: getMessages(roomData.id) reaches the edge
\* function, which reads the rows in created_at order; every failure is []
pageGetMessages ==
  /\ page.pc = "open"
  /\ page.room # NoRoom
  /\ page.fetch.pc = "none"
  /\ \E f \in BOOLEAN :
       /\ Faulty(f)
       /\ CountFault(f)
       /\ IF f \/ ~Authorized(page.room.id, page.roomSessionToken)
          THEN page' = [page EXCEPT !.fetch = [pc |-> "got", rows |-> <<>>]]
          ELSE \E q \in OrderedRows(MessagesOf(page.room.id)) :
                  page' = [page EXCEPT !.fetch = [pc |-> "got", rows |-> q]]
  /\ reply' = NoReply
  /\ UNCHANGED <<now, ticks, pagestore>>

\* loadRoom, the response is there: the rows are decrypted (Promise.all) and
\* setMessages(decryptedMessages) replaces the list
setMessages ==
  /\ Mounted
  /\ page.fetch.pc = "got"
  /\ page' = [page EXCEPT !.messages = page.fetch.rows,
                          !.fetch = [pc |-> "done", rows |-> <<>>]]
  /\ reply' = NoReply
  /\ UNCHANGED <<now, ticks, faults, pagestore>>

\* the subscription effect (room.id is set): subscribeToMessages(room.id, ...);
\* the channel delivers the rows inserted from now on
pageSubscribe ==
  /\ Mounted
  /\ page.room # NoRoom
  /\ page.channel = "none"
  /\ page' = [page EXCEPT !.channel = "open", !.next = nextMsgId]
  /\ reply' = NoReply
  /\ UNCHANGED <<now, ticks, faults, pagestore>>

\* the rows of the page's room the channel has not delivered yet
Undelivered ==
  {m \in MessagesOf(page.room.id) : m.id >= page.next /\ MessagesSelectPolicy(m)}

\* the channel delivers the next inserted row, in insertion order: the
\* callback starts and awaits decryptMessage
onMessage ==
  /\ page.channel = "open"
  /\ \E m \in Undelivered :
       /\ \A o \in Undelivered : m.id <= o.id
       /\ page' = [page EXCEPT !.decrypting = page.decrypting \cup {m},
                               !.next = m.id + 1]
  /\ reply' = NoReply
  /\ UNCHANGED <<now, ticks, faults, pagestore>>

\* a callback's decryption completes, in any order among the callbacks:
\* setMessages((prev) => [...prev, newMessage])
messageDecrypted ==
  /\ Mounted
  /\ \E m \in page.decrypting :
       page' = [page EXCEPT !.decrypting = page.decrypting \ {m},
                            !.messages = Append(page.messages, m)]
  /\ reply' = NoReply
  /\ UNCHANGED <<now, ticks, faults, pagestore>>

\* the route parameter changes under the mounted component (history
\* navigation between two /chat/:code entries): the cleanup of the
\* subscription effect calls unsubscribe(), which removes the channel and
\* cancels no callback; loadRoom runs again for the new code
codeChanged ==
  /\ page.pc = "open"
  /\ page.room # NoRoom
  /\ \E c \in PageRoutes \ {page.code} :
       page' = [page EXCEPT !.pc = "mounted", !.code = c,
                            !.channel = "none",
                            !.stale = page.stale \cup page.decrypting,
                            !.decrypting = {},
                            !.fetch = NoFetch]
  /\ reply' = NoReply
  /\ UNCHANGED <<now, ticks, faults, pagestore>>

\* the decryption of a callback of a removed channel completes: the callback
\* goes on to setMessages like any other
staleDecrypted ==
  /\ Mounted
  /\ \E m \in page.stale :
       page' = [page EXCEPT !.stale = page.stale \ {m},
                            !.messages = Append(page.messages, m)]
  /\ reply' = NoReply
  /\ UNCHANGED <<now, ticks, faults, pagestore>>

\* the other participant of the page's room inserts a text
peerInsert ==
  \E f \in BOOLEAN : MessagesInsertBy(1, 2, <<"text", "c1">>, f)

ListNext ==
  \/ Tick
  \/ peerInsert
  \/ loadRoom
  \/ pageGetMessages
  \/ setMessages
  \/ pageSubscribe
  \/ onMessage
  \/ messageDecrypted
  \/ codeChanged
  \/ staleDecrypted
  \/ roomUpdated
  \/ timerExpired
  \/ pageExpireRoom

ListSpec == PageInit /\ [][ListNext]_vars

\* The page's own steps are taken once they can be: its requests are
\* answered, its channel delivers, its promises settle and its interval
\* fires.  Nothing obliges the clock, the other participant, the route or
\* the room-status channel to move.
ListLive ==
  /\ ListSpec
  /\ WF_vars(loadRoom)
  /\ WF_vars(pageGetMessages)
  /\ WF_vars(setMessages)
  /\ WF_vars(pageSubscribe)
  /\ WF_vars(onMessage)
  /\ WF_vars(messageDecrypted)
  /\ WF_vars(staleDecrypted)
  /\ WF_vars(timerExpired)
  /\ WF_vars(pageExpireRoom)

\* ------------------------------------------------- the page's status poll
\* the creator's tab of room 2, which waits for its second participant
PollInit ==
  /\ EstablishedStore
  /\ page = [NoPage EXCEPT !.pc = "mounted",
                           !.code = <<"Z","Z","Z","Z","Z","Z">>,
                           !.roomSessionToken = 3,
                           !.roomCode = <<"Z","Z","Z","Z","Z","Z">>,
                           !.currentRoomCode = <<"Z","Z","Z","Z","Z","Z">>]

\* the poll interval exists while the timer effect ran with a room that is
\* waiting on a page that is not expired (one poll at a time here): its
\* getRoomByCode(code) is answered, null for every failure
pollRoom ==
  /\ page.pc = "open"
  /\ page.room # NoRoom
  /\ ~page.isExpired
  /\ page.room.status = "waiting"
  /\ page.poll.pc # "got"
  /\ \E f \in BOOLEAN :
       /\ Faulty(f)
       /\ CountFault(f)
       /\ IF \/ f
             \/ page.roomSessionToken = 0
             \/ FindRoom(page.code) = {}
             \/ \A r \in FindRoom(page.code) :
                   ~Authorized(r.id, page.roomSessionToken)
          THEN page' = [page EXCEPT !.poll = [pc |-> "got", room |-> NoRoom]]
          ELSE \E roomData \in FindRoom(page.code) :
                  page' = [page EXCEPT !.poll = [pc |-> "got", room |-> roomData]]
  /\ reply' = NoReply
  /\ UNCHANGED <<now, ticks, pagestore>>

\* the poll's continuation:
\* if (roomData && roomData.status !== 'waiting') setRoom(roomData)
pollReturned ==
  /\ page.poll.pc = "got"
  /\ IF page.poll.room # NoRoom /\ page.poll.room.status # "waiting"
     THEN page' = [page EXCEPT !.room = page.poll.room,
                               !.poll = [pc |-> "applied", room |-> NoRoom]]
     ELSE page' = [page EXCEPT !.poll = NoPoll]
  /\ reply' = NoReply
  /\ UNCHANGED <<now, ticks, faults, pagestore>>

PollNext ==
  \/ Tick
  \/ \E j \in Joiners : JoinLookup(j)
  \/ \E j \in Joiners : JoinInsertParticipant(j)
  \/ \E j \in Joiners : JoinUpdateRoom(j)
  \/ \E id \in MsgRoomIds : expireRoom(id)
  \/ cleanup_expired_rooms
  \/ loadRoom
  \/ roomUpdated
  \/ timerExpired
  \/ pageExpireRoom
  \/ pollRoom
  \/ pollReturned

\* the two intervals of the timer effect fire and their requests are
\* answered; the room-status channel, the clock and the other callers owe
\* nothing
PollSpec ==
  /\ PollInit
  /\ [][PollNext]_vars
  /\ WF_vars(pollRoom)
  /\ WF_vars(pollReturned)
  /\ WF_vars(timerExpired)
  /\ WF_vars(pageExpireRoom)

\* ================================================================ properties
\* a join request on room id has passed its lookup and has not answered yet
JoinInFlight(id) == \E j \in Joiners : jpc[j] # "idle" /\ jreq[j].roomId = id

\* the create request of room id has not answered yet
CreateInFlight(id) == cpc \in {"insertParticipant", "cleanup"} /\ creq.room.id = id

SlotsOf(id) == {p.participant_number : p \in ParticipantsOf(id)}

InRange(d) == Len(d) = 1 /\ d[1] >= MIN_DURATION /\ d[1] <= MAX_DURATION

JoinFailed == reply.op = "join" /\ reply.status \notin {0, 200}

JoinSucceeded == reply.op = "join" /\ reply.status = 200

\* C1: join requests racing for one waiting, unexpired room, with no store
\* failure: a request that fails answers "room full"; a request that succeeds
\* returns the room active with 2 participants and holds slot 2; once the
\* requests have answered exactly one was admitted and the room has
\* participant_count 2 and exactly two bindings.
C1_JoinRace ==
  \A r \in rooms :
    (faults = 0 /\ r.status # "expired" /\ ~IsExpiredAt(r, now)) =>
       /\ (JoinFailed /\ reply.roomId = r.id) => reply.error \in FullErrors
       /\ (JoinSucceeded /\ reply.roomId = r.id) =>
             /\ reply.room.status = "active"
             /\ reply.room.participant_count = 2
             /\ Participant(r.id, reply.sessionToken, 2) \in room_participants
       /\ admitted[r.id] <= 1
       /\ (2 \in SlotsOf(r.id) /\ ~JoinInFlight(r.id) /\ ~CreateInFlight(r.id)) =>
             /\ admitted[r.id] = 1
             /\ r.participant_count = 2
             /\ Cardinality(ParticipantsOf(r.id)) = 2

\* a request lost the race at its insert after the winner had answered
C1_Witness ==
  /\ faults = 0
  /\ reply.op = "join"
  /\ reply.error = "Failed to join room. It may be full."
  /\ \E r \in rooms :
       /\ r.id = reply.roomId
       /\ r.status = "active"
       /\ ~IsExpiredAt(r, now)
       /\ admitted[r.id] = 1
       /\ ~JoinInFlight(r.id)

\* C2: over a room's whole lifetime at most one join request returns a
\* session token.
C2_OneAdmission == \A id \in RoomIds : admitted[id] <= 1

\* a later join request is turned away from a room that admitted its joiner
C2_Witness ==
  /\ reply.op = "join"
  /\ reply.error = "This room is already full"
  /\ admitted[reply.roomId] = 1

\* C3: every stored room has one or two bindings, in distinct slots of {1,2}.
C3_BindingsPerRoom ==
  \A r \in rooms :
    /\ Cardinality(ParticipantsOf(r.id)) \in {1, 2}
    /\ Cardinality(SlotsOf(r.id)) = Cardinality(ParticipantsOf(r.id))
    /\ SlotsOf(r.id) \subseteq {1, 2}

\* C4: a room's participant_count is the number of its bindings.
C4_CountIsBindings ==
  \A r \in rooms : r.participant_count = Cardinality(ParticipantsOf(r.id))

\* C5: a waiting room has exactly one binding, an active room exactly the
\* bindings of slot 1 and slot 2.
C5_StatusIsBindings ==
  \A r \in rooms :
    /\ r.status = "waiting" => Cardinality(ParticipantsOf(r.id)) = 1
    /\ r.status = "active" =>
          SlotsOf(r.id) = {1, 2} /\ Cardinality(ParticipantsOf(r.id)) = 2

\* C6: a room whose status is expired stays expired for as long as it is
\* stored.
C6_ExpiredIsTerminal ==
  [][\A r \in rooms : r.status = "expired" =>
        \A x \in rooms' : x.id = r.id => x.status = "expired"]_vars

CreateSucceeded == reply.op = "create" /\ reply.status = 200

C10_FailedJoinLeavesNothing ==
  [][(reply'.op = "join" /\ reply'.status # 200) =>
       /\ rooms' = rooms
       /\ \A j \in Joiners :
            (jpc[j] # "idle" /\ jpc'[j] = "idle" /\ jreq[j].sessionToken # 0) =>
               Participant(jreq[j].roomId, jreq[j].sessionToken, 2)
                  \notin room_participants']_vars
\* ------------------------------------------------- properties of messaging
\* the token is the session token of a binding of the room
Bound(id, token) ==
  \E n \in {1, 2} : Participant(id, token, n) \in room_participants

NoData(r) == r.room = NoRoom /\ r.messages = <<>> /\ r.participantNumber = <<>>

SendersAreBound == \A m \in messages : Bound(m.room_id, m.sender_id)

\* C12: a message sent with a token that is not bound to the addressed room
\* is answered Unauthorized (403), through the relay and through the insert
\* (a store failure apart); every stored message's sender_id is the token of
\* a binding of its room.
C12_SendNeedsBinding ==
  /\ (/\ reply.op \in {"sendMessage", "insert"}
      /\ ~Bound(reply.input[1], reply.input[2])
      /\ reply.error # "Error sending message") => reply.status = 403
  /\ SendersAreBound
\* C13: once now is past a room's expires_at, a message sent to that room is
\* refused as the room being closed and no row is added to its messages.
C13_NoSendAfterExpiry ==
  [][\A r \in rooms :
       IsExpiredAt(r, now) =>
          /\ MessagesOf(r.id)' \subseteq MessagesOf(r.id)
          /\ (reply'.op \in {"sendMessage", "insert"} /\ reply'.roomId = r.id) =>
                (reply'.status = 400 /\ reply'.error \in ExpiredErrors)]_vars
\* C14: while a room's status is expired, a getMessages request for it that
\* presents a bound token is not let through to the fetch, and a subscription
\* to its messages is refused as the room being closed.
C14_ExpiredRoomIsClosed ==
  [][\A r \in rooms :
       r.status = "expired" =>
          /\ ~(rpc = "idle" /\ rpc' = "fetch" /\ rreq'.roomId = r.id)
          /\ (reply'.op = "subscribe" /\ reply'.roomId = r.id) =>
                (reply'.status = 400 /\ reply'.error \in ExpiredErrors)]_vars
\* a getMessages request with a roomId and a token, for a room that is not
\* stored, is answered in this step
ReadOfMissingRoom ==
  /\ reply'.op = "getMessages"
  /\ rpc = "idle"
  /\ reply'.input[1] # 0
  /\ reply'.input[2] # 0
  /\ RoomById(reply'.input[1]) = {}

C16_RelayDelivers ==
  (/\ reply.op = "sendMessage"
   /\ Bound(reply.input[1], reply.input[2])
   /\ \E r \in rooms : /\ r.id = reply.input[1]
                       /\ r.status = "active"
                       /\ ~IsExpiredAt(r, now)) =>
     /\ reply.status \in {200, 201}
     /\ \E m \in MessagesOf(reply.input[1]) : m.sender_id = reply.input[2]
\* C17: getMessages returns the room's messages by ascending created_at, and
\* messages with equal created_at in the order they were inserted.
C17_InsertionOrderOnTies ==
  [][(reply'.op = "getMessages" /\ reply'.status = 200) =>
       \A i, j \in DOMAIN reply'.messages :
          i < j =>
             /\ reply'.messages[i].created_at <= reply'.messages[j].created_at
             /\ reply'.messages[i].created_at = reply'.messages[j].created_at
                   => reply'.messages[i].id < reply'.messages[j].id]_vars
\* a stored room leaves the store in this step
Deleted(r) == RoomById(r.id)' = {}

\* C18 as stated: no step deletes a room while now <= expires_at + 1 hour.
C18_NoDeleteBeforeRetention ==
  [][\A r \in rooms : Deleted(r) => now > r.expires_at + RETENTION_MS]_vars

\* C18 as amended: a room whose creator is registered (slot 1 is bound) is
\* deleted only when now > expires_at + 1 hour; an earlier delete is the
\* rollback of the create request that inserted the room and is still in
\* flight.
C18_DeleteOnlyAfterRetention ==
  [][\A r \in rooms :
       Deleted(r) =>
          \/ now > r.expires_at + RETENTION_MS
          \/ /\ 1 \notin SlotsOf(r.id)
             /\ cpc = "cleanup"
             /\ creq.room.id = r.id]_vars

\* the sweep has deleted a room that had its creator and a joiner
C18_Witness ==
  /\ rooms = {}
  /\ nextRoomId > 1
  /\ admitted[1] = 1
  /\ faults = 0
  /\ cpc = "idle"
  /\ now > RETENTION_MS
\* C19: every binding and every message belongs to a stored room.
C19_NothingOutlivesItsRoom ==
  /\ \A p \in room_participants : RoomById(p.room_id) # {}
  /\ \A m \in messages : RoomById(m.room_id) # {}

\* the sweep deleted room 1 with one of the two messages sent; the message
\* of room 2 is still stored
C19_Witness ==
  /\ RoomById(1) = {}
  /\ ParticipantsOf(1) = {}
  /\ nextMsgId = 3
  /\ Cardinality(messages) = 1
  /\ MessagesOf(2) # {}
PastExpiry(id) == \E r \in RoomById(id) : r.expires_at < now

\* room id is stored and now is past its expires_at by more than the retention
PastRetention(id) == \E r \in RoomById(id) : r.expires_at < now - RETENTION_MS

\* room id is not stored, nor a binding or a message of it
Destroyed(id) ==
  RoomById(id) = {} /\ ParticipantsOf(id) = {} /\ MessagesOf(id) = {}

\* C21: a stored room whose expires_at has passed is eventually marked
\* expired (or deleted), and one whose retention has passed is eventually
\* deleted with its bindings and messages, whether or not a client's page is
\* open at the deadline.
C21_EventuallyDestroyed ==
  \A id \in RoomIds :
    /\ PastExpiry(id) ~>
          (\A r \in RoomById(id) : r.status = "expired")
    /\ PastRetention(id) ~> Destroyed(id)
\* C22: a create request whose room insert meets a code that is already
\* stored (the only way the insert fails without a store failure) is not
\* answered with a failure at that step: it goes on with another code.
C22_CollisionIsRetried ==
  [][(cpc = "insertRoom" /\ faults' = faults /\ reply'.op = "create") =>
        reply'.status = 200]_vars
\* C23: the rows of a room's messages reach a page, by getMessages or through
\* its open channel, only if the session token the page holds is bound to
\* that room.
C23_OnlyBoundClientsReceive ==
  [][/\ (rpc = "idle" /\ rpc' = "fetch") =>
           Bound(rreq'.roomId, rreq'.sessionToken)
     /\ (rpc = "subscribed" /\ feed' # feed) =>
           Bound(rreq.roomId, rreq.sessionToken)]_vars
RelayKeys == {getKey(Units(r.code)) : r \in rooms}

\* C25: the key of a room, which its participants' pages derive from the code
\* that create and join return to them, is none that can be derived from
\* what the relay holds.
C25_RelayCannotDeriveKey ==
  (CreateSucceeded \/ JoinSucceeded) =>
     getKey(Units(reply.room.code)) \notin RelayKeys
\* ---------------------------------------------------- properties of the cipher
\* no surrogate of the string is without its partner
WellFormed(s) ==
  \A i \in DOMAIN s :
    /\ IsHigh(s[i]) => (i < Len(s) /\ IsLow(s[i + 1]))
    /\ IsLow(s[i]) => (i > 1 /\ IsHigh(s[i - 1]))

\* the text was encrypted, came unchanged and was decrypted under the same code
ReadBack ==
  cipher.pc = "read" /\ cipher.intact /\ cipher.readerCode = cipher.roomCode

\* C27 as stated: for every text P and code C,
\* decryptMessage(encryptMessage(P, C), C) returns P.
C27_RoundTrip == ReadBack => (~cipher.threw /\ cipher.out = cipher.text)

\* the content was decrypted under another code than it was encrypted under
WrongCode == cipher.pc = "read" /\ cipher.readerCode # cipher.roomCode

Sealed(v, code) ==
  \E plain \in MessageTexts \cup ImageData \cup PaymentData, iv \in IVs :
     v = encryptMessage(plain, code, iv)

\* the content and imageUrl values of a call or of a request body
ValuesOf(call) ==
  {call.content[i] : i \in DOMAIN call.content}
    \cup {call.imageUrl[i] : i \in DOMAIN call.imageUrl}

\* C26: every content and imageUrl value a ChatRoom path passes to
\* sendMessage is an output of encryptMessage under the room's code.
C26_SentIsSealedUnderRoomCode ==
  \A v \in ValuesOf(page.sent) : Sealed(v, Units(page.room.code))

\* what reaches the relay: every content and imageUrl of a request body is
\* null or an output of encryptMessage under the code of the page's route
SubmittedIsSealed ==
  \A v \in ValuesOf(page.body) : Sealed(v, Units(page.code))

C29_SelectableDurationIsAccepted ==
  (/\ reply.op = "create"
   /\ Len(reply.input) = 1
   /\ reply.input[1] \in DURATION_OPTIONS) => reply.status # 400

C32_SameRoomSameKey ==
  page.room # NoRoom =>
    \A c \in PageRoutes :
       (\E r \in FindRoom(c) : r.id = page.room.id) =>
          getKey(Units(c)) = getKey(Units(page.code))

\* ------------------------------------------------------ properties of the list
\* the chat view of the page is shown
Showing == page.pc = "open" /\ page.room # NoRoom /\ ~page.isExpired

\* C33: the displayed list is in ascending created_at order.
C33_ListInCreatedAtOrder ==
  Showing =>
    \A i, j \in DOMAIN page.messages :
       i < j => page.messages[i].created_at <= page.messages[j].created_at

\* C34: no message id is in the displayed list twice.
C34_NoDuplicateIds ==
  Showing =>
    \A i, j \in DOMAIN page.messages :
       i # j => page.messages[i].id # page.messages[j].id

\* C36: a callback of a removed channel that completes leaves the list as
\* it is.
C36_ClosedChannelIsSilent ==
  [][(\E m \in page.stale : m \notin page'.stale) =>
        page'.messages = page.messages]_vars

\* the row with this id is in the displayed list
Displayed(id) == \E i \in DOMAIN page.messages : page.messages[i].id = id

C37_PayloadIsSubmitted ==
  page.body.type # "" =>
    \A v \in ValuesOf(page.sent) : v # <<>> => v \in ValuesOf(page.body)

\* ------------------------------------------------------ properties of the poll
\* the stored row of the page's room is active
StoredActive == \E r \in RoomById(page.room.id) : r.status = "active"

====
